---- MODULE Spec2Model ----
(***************************************************************************)
(* One invocation of the ovm_vm Ansible module (library/ovm_vm.py): main() *)
(* validates its parameters, resolves names against the listings of the    *)
(* Oracle VM Manager REST API, dispatches on (VM exists, requested state)  *)
(* to the OVMVmHelper operations and reports through fail_json/exit_json.  *)
(* Every HTTP request is one step.  What the remote manager answers (a     *)
(* listing, a job reference, a job status) is an input of the step.        *)
(***************************************************************************)
EXTENDS Integers, Sequences, FiniteSets, TLC

\* ------------------------------------------------------------------ bounds
MaxPolls == 2       \* job-status fetches modelled per monitor_job call
MaxAttach == 2      \* records in virtual_nics and disk_mappings together
MaxMemSteps == 4    \* memory is at most MaxMemSteps * 512, memory_limit one step more

\* --------------------------------------------------------------- constants
MemoryUnit == 1024

\* Python's None (a missing dict, list or element)
None == [none |-> TRUE]
\* a parameter that may be None wraps its value when it is given
IntValue(n) == [int |-> n]
ListValue(s) == [list |-> s]

\* module.params: the names the invocation is given
VmName == "host01"
RepositoryName == "Repo1"
ServerPoolName == "Pool1"
NetworkName == "10.20.20.0"
MacAddress == "00:00:00:00:00:00"
VirtualDiskName == "host1_root"
DiskSlot == 0
OtherName == "other"

\* argument_spec choices of state (line 320)
States == {"present", "absent", "start", "stop", "restart", "scale"}
\* the states main() creates a missing VM for (line 431)
CreateStates == {"poweredon", "poweredoff", "present", "restarted", "suspended"}
PowerStates == {"start", "stop", "restart"}

MemoryValues == {m * 512 : m \in 3..MaxMemSteps}
MemoryLimits == {m * 512 : m \in 2..(MaxMemSteps + 1)}

NicRecords == [network : {NetworkName}, mac_address : {MacAddress}]
DiskRecords == [slot : {DiskSlot}, virtual_disk : {VirtualDiskName}]

SeqsUpTo(S, n) == UNION {[1..m -> S] : m \in 0..n}

\* what the remote manager may answer
Ids == {"id1", "id2"}
OneId == {"id1"}
JobIds == {"job1", "job2"}
Errors == {"err1"}
ResultIds == {"res1"}
JobRunStates == {"RUNNING", "SUCCESS", "FAILURE", "ABORT"}

\* a {type}/id listing: elements {name, value}, the ids pairwise different
Elements(object_name, ids) == [name : {object_name, OtherName}, value : ids]
Listings(object_name, ids) ==
    {l \in SeqsUpTo(Elements(object_name, ids), Cardinality(ids)) :
        \A a, b \in 1..Len(l) : a # b => l[a].value # l[b].value}

\* the job status GET Job/{job_id} may return: a job that failed carries an
\* error, one that succeeded a resultId
JobResponses(id) ==
    {j \in [id : {[value |-> id]}, summaryDone : BOOLEAN, jobRunState : JobRunStates,
            error : Errors \cup {""}, resultId : ResultIds \cup {""}] :
        /\ (j.error # "") = (j.jobRunState = "FAILURE")
        /\ (j.resultId # "") = (j.jobRunState = "SUCCESS")}

VARIABLES
    state, memory, memory_limit, virtual_nics, disk_mappings,  \* module.params / locals of main
    pc,               \* position of the invocation
    frame,            \* the OVMVmHelper operation being executed ("main" when none)
    target_state,     \* the state argument of OVMVmHelper.state
    i, k,             \* position in the virtual_nics / disk_mappings loops
    repository_id, server_pool_id, vm,   \* main(): the three lookups
    vm_id, child_id,  \* helper locals: vm_id, and network_id / virtual_disk_id
    job_id, polls,    \* monitor_job: its argument, and the fetches made so far
    job,              \* the job status the last request fetched (None: it fetched none)
    result,           \* main(): result
    report,           \* what fail_json / exit_json was called with
    response,         \* the listing the last request fetched (None: it fetched none)
    last_request,     \* the last HTTP request issued, in full (None: none so far)
    requests,         \* the HTTP requests issued, ids dropped, with their outcome
    failures          \* the errors of the jobs whose polled status was a FAILURE

vars == <<state, memory, memory_limit, virtual_nics, disk_mappings, pc, frame,
          target_state, i, k, repository_id, server_pool_id, vm, vm_id, child_id,
          job_id, job, polls, result, report, response, last_request, requests,
          failures>>

params == <<state, memory, virtual_nics, disk_mappings>>

\* ------------------------------------------------------------ HTTP requests
Request(method, object_type, object_id, child_type, data) ==
    [method |-> method, object_type |-> object_type, object_id |-> object_id,
     child_type |-> child_type, data |-> data]

\* OVMRestClient.get_id_for_name: GET {type}/id
ListingRequest(object_type) == Request("GET", object_type, None, "id", None)
\* OVMRestClient.create: POST {type}
CreateRequest(object_type, data) == Request("POST", object_type, None, "", data)
\* OVMRestClient.delete: DELETE {type}/{id}
DeleteRequest(object_type, object_id) == Request("DELETE", object_type, object_id, "", None)
\* OVMRestClient.create_child: POST {type}/{id}/{child_type}
CreateChildRequest(object_type, object_id, child_type, data) ==
    Request("POST", object_type, object_id, child_type, data)
\* OVMRestClient.update_child: PUT {type}/{id}/{child_type}, data={}
UpdateChildRequest(object_type, object_id, child_type) ==
    Request("PUT", object_type, object_id, child_type, None)
\* OVMRestClient.monitor_job: GET Job/{job_id}
JobRequest(id) == Request("GET", "Job", id, "", None)

\* an entry of the request history: the request without its ids and payload,
\* with what came of it ("found"/"missing" for a listing scan, "pending"/"done"
\* for the status of a job still under way / done, "sent" for a mutating request)
Logged(req, outcome) ==
    [method |-> req.method, object_type |-> req.object_type,
     child_type |-> req.child_type, outcome |-> outcome]

\* get_id_for_name with a scan that looks at the first element only
get_id_for_name_FirstElementOnly(elements, object_name) ==
    IF elements = << >> THEN None
    ELSE IF Head(elements).name = object_name THEN Head(elements)
    ELSE None

\* the scan of OVMRestClient.get_id_for_name: the first element with the name
RECURSIVE get_id_for_name(_, _)
get_id_for_name(elements, object_name) ==
    IF elements = << >> THEN None
    ELSE IF Head(elements).name = object_name THEN Head(elements)
    ELSE get_id_for_name(Tail(elements), object_name)

ScanOutcome(element) == IF element = None THEN "missing" ELSE "found"

\* ------------------------------------------------------------- monitor_job
JobFailedMsg(j) == <<"Job %s failed with: %s.", j.id.value, j.error>>

\* monitor_job without its FAILURE branch: a failed job is polled again
MonitorStep_NoFailureBranch(j) ==
    IF j.summaryDone
    THEN IF j.jobRunState = "SUCCESS"
         THEN [next |-> "return",
               value |-> [changed |-> TRUE, failed |-> FALSE, resultId |-> j.resultId]]
         ELSE IF j.jobRunState \in {"RUNNING", "FAILURE"}
         THEN [next |-> "continue", value |-> None]
         ELSE [next |-> "break", value |-> None]
    ELSE [next |-> "continue", value |-> None]

\* one iteration of the loop of monitor_job on the fetched status
MonitorStep(j) ==
    IF j.summaryDone
    THEN IF j.jobRunState = "FAILURE"
         THEN [next |-> "return",
               value |-> [changed |-> FALSE, failed |-> TRUE, msg |-> JobFailedMsg(j)]]
         ELSE IF j.jobRunState = "SUCCESS"
         THEN [next |-> "return",
               value |-> [changed |-> TRUE, failed |-> FALSE, resultId |-> j.resultId]]
         ELSE IF j.jobRunState = "RUNNING"
         THEN [next |-> "continue", value |-> None]
         ELSE [next |-> "break", value |-> None]
    ELSE [next |-> "continue", value |-> None]

\* what the history records of a job status
PollOutcome(j) ==
    IF j.summaryDone /\ j.jobRunState # "RUNNING" THEN "done" ELSE "pending"

\* ------------------------------------------------------------- OVMVmHelper
NotFound(what, name) ==
    [changed |-> FALSE, failed |-> TRUE, msg |-> <<"Could not find a %s named %s.", what, name>>]

\* the creation payload of main() (lines 433-451); the fields that are copied
\* from module.params unchanged are left out
VmData(repo, pool, mem, mem_limit) ==
    [repositoryId |-> repo, serverPoolId |-> pool, name |-> VmName,
     memory |-> mem, memoryLimit |-> mem_limit]

VirtualNicData(mac_address, network_id) ==
    [name |-> mac_address, macAddress |-> mac_address, networkId |-> network_id]

VmDiskMappingData(slot, virtual_disk_id) ==
    [diskTarget |-> slot, virtualDiskId |-> virtual_disk_id]

\* -------------------------------------------------------------------- main
\* the checks without the alignment check of memory_limit
MemoryError_LimitNotAligned(mem, mem_limit) ==
    IF mem % MemoryUnit # 0
    THEN [msg |-> "memory must be a multitude of 1024"]
    ELSE IF mem_limit = None THEN None
    ELSE IF mem_limit.int < mem
    THEN [msg |-> "memory_limit < memory"]
    ELSE None

\* the checks of lines 382-393: the message fail_json is called with, or None
MemoryError(mem, mem_limit) ==
    IF mem % MemoryUnit # 0
    THEN [msg |-> "memory must be a multitude of 1024"]
    ELSE IF mem_limit = None THEN None
    ELSE IF mem_limit.int < mem
    THEN [msg |-> "memory_limit < memory"]
    ELSE IF mem_limit.int % MemoryUnit # 0
    THEN [msg |-> "memory_limit must be a multitude of 1024"]
    ELSE None

\* the branch with absent taken for a power state
Dispatch_AbsentAsState(found, requested) ==
    IF found # None
    THEN IF requested = "present" THEN "reconfigure"
         ELSE IF requested \in PowerStates \cup {"absent"} THEN "state"
         ELSE "assert"
    ELSE IF requested \in CreateStates THEN "create"
         ELSE "nothing"

\* the branch taken on the requested state alone, whether the VM was found or not
Dispatch_IgnoresFound(found, requested) ==
    IF requested = "absent" THEN "delete"
    ELSE IF requested = "present" THEN (IF found # None THEN "reconfigure" ELSE "create")
    ELSE IF requested \in PowerStates THEN "state"
    ELSE "assert"

\* where main() goes once it has looked the VM up (lines 416-431)
Dispatch(found, requested) ==
    IF found # None
    THEN IF requested = "absent" THEN "delete"
         ELSE IF requested = "present" THEN "reconfigure"
         ELSE IF requested \in PowerStates THEN "state"
         ELSE "assert"
    ELSE IF requested \in CreateStates THEN "create"
         ELSE "nothing"

\* the disk_mappings loop stopping one mapping short
DiskLoop_OneShort(n, m) ==
    IF disk_mappings = None
    THEN [pc |-> "crashed", frame |-> "main", i |-> n, k |-> m, target_state |-> ""]
    ELSE IF m + 1 < Len(disk_mappings.list)
    THEN [pc |-> "create_diskmapping_vm", frame |-> "create_diskmapping",
          i |-> n, k |-> m + 1, target_state |-> ""]
    ELSE [pc |-> "state_vm", frame |-> "state", i |-> n, k |-> m, target_state |-> "start"]

\* the for loops of lines 453-463 and the start of line 465: the helper main()
\* calls next, n NICs and m disk mappings having been handled
DiskLoop(n, m) ==
    IF disk_mappings = None
    THEN [pc |-> "crashed", frame |-> "main", i |-> n, k |-> m, target_state |-> ""]
    ELSE IF m < Len(disk_mappings.list)
    THEN [pc |-> "create_diskmapping_vm", frame |-> "create_diskmapping",
          i |-> n, k |-> m + 1, target_state |-> ""]
    ELSE [pc |-> "state_vm", frame |-> "state", i |-> n, k |-> m, target_state |-> "start"]

NicLoop(n) ==
    IF virtual_nics = None
    THEN [pc |-> "crashed", frame |-> "main", i |-> n, k |-> 0, target_state |-> ""]
    ELSE IF n < Len(virtual_nics.list)
    THEN [pc |-> "create_virtualnic_vm", frame |-> "create_virtualnic",
          i |-> n + 1, k |-> 0, target_state |-> ""]
    ELSE DiskLoop(n, 0)

\* where main() continues when the helper f returns
AfterHelper(f) ==
    IF f = "create" THEN NicLoop(0)
    ELSE IF f = "create_virtualnic" THEN NicLoop(i)
    ELSE IF f = "create_diskmapping" THEN DiskLoop(i, k)
    ELSE [pc |-> "main_report", frame |-> "main", i |-> i, k |-> k, target_state |-> ""]

\* lines 467-468
WithFailed(r) == IF "failed" \in DOMAIN r THEN r ELSE ("failed" :> FALSE) @@ r

\* ----------------------------------------------------------------- actions
\* a request is issued; the history keeps the fetches of a job that is still
\* under way as one entry
Issue(req, outcome) ==
    /\ last_request' = req
    /\ requests' = IF /\ outcome = "pending"
                      /\ requests[Len(requests)] = Logged(req, outcome)
                   THEN requests
                   ELSE Append(requests, Logged(req, outcome))

Goto(next) ==
    /\ pc' = next.pc
    /\ frame' = next.frame
    /\ i' = next.i
    /\ k' = next.k
    /\ target_state' = next.target_state

\* a helper returns value to main(); its locals are gone
Return(value) ==
    /\ result' = value
    /\ Goto(AfterHelper(frame))
    /\ vm_id' = None
    /\ child_id' = None
    /\ job_id' = None

\* a mutating request is sent; its response names the job (result['id']['value'])
\* that monitor_job is then called with
Send(req) ==
    /\ Issue(req, "sent")
    /\ \E id \in JobIds : job_id' = id
    /\ job' = None
    /\ response' = None
    /\ polls' = 0
    /\ pc' = "monitor_job"

\* a helper resolves the VM name (vm_id = self.get_id_for_name(name)) and
\* returns the not-found result when there is none
ResolveVm(next) ==
    \E l \in Listings(VmName, Ids) :
        LET element == get_id_for_name(l, VmName) IN
        /\ response' = ListValue(l)
        /\ job' = None
        /\ Issue(ListingRequest("Vm"), ScanOutcome(element))
        /\ IF element = None
           THEN Return(NotFound("vm", VmName))
           ELSE /\ vm_id' = element
                /\ pc' = next
                /\ UNCHANGED <<frame, target_state, i, k, child_id, job_id, result>>

\* a helper resolves the name of the network or virtual disk to attach
ResolveChild(object_type, what, name, next) ==
    \E l \in Listings(name, OneId) :
        LET element == get_id_for_name(l, name) IN
        /\ response' = ListValue(l)
        /\ job' = None
        /\ Issue(ListingRequest(object_type), ScanOutcome(element))
        /\ IF element = None
           THEN Return(NotFound(what, name))
           ELSE /\ child_id' = element
                /\ pc' = next
                /\ UNCHANGED <<frame, target_state, i, k, vm_id, job_id, result>>

Init ==
    /\ state \in States
    /\ memory \in MemoryValues
    /\ memory_limit \in {None} \cup {IntValue(n) : n \in MemoryLimits}
    /\ virtual_nics \in {None} \cup {ListValue(s) : s \in SeqsUpTo(NicRecords, MaxAttach)}
    /\ disk_mappings \in {None} \cup {ListValue(s) : s \in SeqsUpTo(DiskRecords, MaxAttach)}
    /\ (virtual_nics # None /\ disk_mappings # None) =>
            Len(virtual_nics.list) + Len(disk_mappings.list) <= MaxAttach
    /\ pc = "main_validate"
    /\ frame = "main"
    /\ target_state = ""
    /\ i = 0
    /\ k = 0
    /\ repository_id = None
    /\ server_pool_id = None
    /\ vm = None
    /\ vm_id = None
    /\ child_id = None
    /\ job_id = None
    /\ job = None
    /\ polls = 0
    /\ result = None
    /\ report = None
    /\ response = None
    /\ last_request = None
    /\ requests = << >>
    /\ failures = {}

\* main(), lines 373-393: result is initialised and memory, memory_limit checked
main_validate ==
    /\ pc = "main_validate"
    /\ IF MemoryError(memory, memory_limit) # None
       THEN /\ report' = [call |-> "fail_json", kwargs |-> MemoryError(memory, memory_limit)]
            /\ pc' = "done"
            /\ UNCHANGED <<memory_limit, result>>
       ELSE /\ memory_limit' = IF memory_limit = None THEN IntValue(memory) ELSE memory_limit
            /\ result' = [failed |-> FALSE, changed |-> FALSE]
            /\ pc' = "main_repository"
            /\ UNCHANGED report
    /\ UNCHANGED <<params, frame, target_state, i, k, repository_id, server_pool_id, vm,
                   vm_id, child_id, job_id, job, polls, response, last_request,
                   requests, failures>>

\* main(), lines 405-407
main_repository ==
    /\ pc = "main_repository"
    /\ \E l \in Listings(RepositoryName, OneId) :
        /\ response' = ListValue(l)
        /\ repository_id' = get_id_for_name(l, RepositoryName)
        /\ Issue(ListingRequest("Repository"), ScanOutcome(repository_id'))
    /\ pc' = "main_server_pool"
    /\ UNCHANGED <<params, memory_limit, frame, target_state, i, k, server_pool_id, vm,
                   vm_id, child_id, job_id, job, polls, result, report, failures>>

\* main(), lines 409-411
main_server_pool ==
    /\ pc = "main_server_pool"
    /\ \E l \in Listings(ServerPoolName, OneId) :
        /\ response' = ListValue(l)
        /\ server_pool_id' = get_id_for_name(l, ServerPoolName)
        /\ Issue(ListingRequest("ServerPool"), ScanOutcome(server_pool_id'))
    /\ pc' = "main_vm"
    /\ UNCHANGED <<params, memory_limit, frame, target_state, i, k, repository_id, vm,
                   vm_id, child_id, job_id, job, polls, result, report, failures>>

\* main(), lines 413-431: the VM is looked up and the branch is taken
main_vm ==
    /\ pc = "main_vm"
    /\ \E l \in Listings(VmName, Ids) :
        /\ response' = ListValue(l)
        /\ vm' = get_id_for_name(l, VmName)
        /\ Issue(ListingRequest("Vm"), ScanOutcome(vm'))
    /\ LET branch == Dispatch(vm', state) IN
        /\ pc' = CASE branch = "delete" -> "delete_vm"
                   [] branch = "reconfigure" -> "main_report"
                   [] branch = "state" -> "state_vm"
                   [] branch = "assert" -> "crashed"
                   [] branch = "create" -> "create"
                   [] OTHER -> "main_report"
        /\ frame' = IF branch \in {"delete", "state", "create"} THEN branch ELSE "main"
        /\ target_state' = IF branch = "state" THEN state ELSE ""
        /\ result' = IF branch = "reconfigure" THEN [failed |-> FALSE] ELSE result
    /\ UNCHANGED <<params, memory_limit, i, k, repository_id, server_pool_id,
                   vm_id, child_id, job_id, job, polls, report, failures>>

\* OVMVmHelper.create, lines 226-229; monitor_job follows
create ==
    /\ pc = "create"
    /\ Send(CreateRequest("Vm", VmData(repository_id, server_pool_id, memory, memory_limit.int)))
    /\ UNCHANGED <<params, memory_limit, frame, target_state, i, k, repository_id,
                   server_pool_id, vm, vm_id, child_id, result, report, failures>>

\* OVMVmHelper.delete, lines 234-237
delete_vm ==
    /\ pc = "delete_vm"
    /\ ResolveVm("delete")
    /\ UNCHANGED <<params, memory_limit, repository_id, server_pool_id, vm, polls,
                   report, failures>>

\* OVMVmHelper.delete, lines 239-241; monitor_job follows
delete ==
    /\ pc = "delete"
    /\ Send(DeleteRequest("Vm", vm_id.value))
    /\ UNCHANGED <<params, memory_limit, frame, target_state, i, k, repository_id,
                   server_pool_id, vm, vm_id, child_id, result, report, failures>>

\* OVMVmHelper.create_virtualnic, lines 247-250
create_virtualnic_vm ==
    /\ pc = "create_virtualnic_vm"
    /\ ResolveVm("create_virtualnic_network")
    /\ UNCHANGED <<params, memory_limit, repository_id, server_pool_id, vm, polls,
                   report, failures>>

\* OVMVmHelper.create_virtualnic, lines 252-257
create_virtualnic_network ==
    /\ pc = "create_virtualnic_network"
    /\ ResolveChild("Network", "network", virtual_nics.list[i].network, "create_virtualnic")
    /\ UNCHANGED <<params, memory_limit, repository_id, server_pool_id, vm, polls,
                   report, failures>>

\* OVMVmHelper.create_virtualnic, lines 259-267; monitor_job follows
create_virtualnic ==
    /\ pc = "create_virtualnic"
    /\ Send(CreateChildRequest("Vm", vm_id.value, "VirtualNic",
                               VirtualNicData(virtual_nics.list[i].mac_address, child_id)))
    /\ UNCHANGED <<params, memory_limit, frame, target_state, i, k, repository_id,
                   server_pool_id, vm, vm_id, child_id, result, report, failures>>

\* OVMVmHelper.create_diskmapping, lines 272-275
create_diskmapping_vm ==
    /\ pc = "create_diskmapping_vm"
    /\ ResolveVm("create_diskmapping_virtual_disk")
    /\ UNCHANGED <<params, memory_limit, repository_id, server_pool_id, vm, polls,
                   report, failures>>

\* OVMVmHelper.create_diskmapping, lines 277-282
create_diskmapping_virtual_disk ==
    /\ pc = "create_diskmapping_virtual_disk"
    /\ ResolveChild("VirtualDisk", "virtual_disk", disk_mappings.list[k].virtual_disk,
                    "create_diskmapping")
    /\ UNCHANGED <<params, memory_limit, repository_id, server_pool_id, vm, polls,
                   report, failures>>

\* OVMVmHelper.create_diskmapping, lines 284-291; monitor_job follows
create_diskmapping ==
    /\ pc = "create_diskmapping"
    /\ Send(CreateChildRequest("Vm", vm_id.value, "VmDiskMapping",
                               VmDiskMappingData(disk_mappings.list[k].slot, child_id)))
    /\ UNCHANGED <<params, memory_limit, frame, target_state, i, k, repository_id,
                   server_pool_id, vm, vm_id, child_id, result, report, failures>>

\* OVMVmHelper.state, lines 302-305 (also reached through start, line 296)
state_vm ==
    /\ pc = "state_vm"
    /\ ResolveVm("state")
    /\ UNCHANGED <<params, memory_limit, repository_id, server_pool_id, vm, polls,
                   report, failures>>

\* OVMVmHelper.state, lines 307-310; monitor_job follows
state_put ==
    /\ pc = "state"
    /\ Send(UpdateChildRequest("Vm", vm_id.value, target_state))
    /\ UNCHANGED <<params, memory_limit, frame, target_state, i, k, repository_id,
                   server_pool_id, vm, vm_id, child_id, result, report, failures>>

\* OVMRestClient.monitor_job, lines 201-215: one iteration of the loop. The
\* loop has no bound; the model follows it for MaxPolls fetches.
monitor_job ==
    /\ pc = "monitor_job"
    /\ polls < MaxPolls
    /\ \E j \in JobResponses(job_id) :
        /\ job' = j
        /\ Issue(JobRequest(job_id), PollOutcome(j))
        /\ failures' = IF j.summaryDone /\ j.jobRunState = "FAILURE"
                       THEN failures \cup {j.error}
                       ELSE failures
        /\ IF MonitorStep(j).next = "continue"
           THEN /\ polls' = polls + 1
                /\ UNCHANGED <<pc, frame, target_state, i, k, vm_id, child_id, job_id,
                               result>>
           ELSE /\ polls' = 0
                /\ Return(MonitorStep(j).value)
    /\ response' = None
    /\ UNCHANGED <<params, memory_limit, repository_id, server_pool_id, vm, report>>

\* main(), lines 467-473: 'failed' not in result raises on the None of a
\* monitor_job that left its loop by break
main_report ==
    /\ pc = "main_report"
    /\ IF result = None
       THEN /\ pc' = "crashed"
            /\ UNCHANGED <<result, report>>
       ELSE /\ result' = WithFailed(result)
            /\ report' = [call |-> IF result'.failed THEN "fail_json" ELSE "exit_json",
                          kwargs |-> result']
            /\ pc' = "done"
    /\ UNCHANGED <<params, memory_limit, frame, target_state, i, k, repository_id,
                   server_pool_id, vm, vm_id, child_id, job_id, job, polls, response,
                   last_request, requests, failures>>

Next ==
    \/ main_validate
    \/ main_repository
    \/ main_server_pool
    \/ main_vm
    \/ create
    \/ delete_vm
    \/ delete
    \/ create_virtualnic_vm
    \/ create_virtualnic_network
    \/ create_virtualnic
    \/ create_diskmapping_vm
    \/ create_diskmapping_virtual_disk
    \/ create_diskmapping
    \/ state_vm
    \/ state_put
    \/ monitor_job
    \/ main_report

Spec == Init /\ [][Next]_vars

\* ------------------------------------------------------------- vocabulary
Entry(method, object_type, child_type, outcome) ==
    [method |-> method, object_type |-> object_type, child_type |-> child_type,
     outcome |-> outcome]

IsMutating(e) == e.method \in {"POST", "PUT", "DELETE"}
IsPoll(e) == e.method = "GET" /\ e.object_type = "Job"
IsScan(e) == e.method = "GET" /\ e.child_type = "id"

Mutations == SelectSeq(requests, IsMutating)
Ended == pc \in {"done", "crashed"}
Terminal == {"SUCCESS", "FAILURE"}

\* the elements of a listing that carry a name
Matches(listing, name) == {n \in DOMAIN listing : listing[n].name = name}

\* ---------------------------------------------------------------------- C1
C1_BadMemory ==
    \/ memory % 1024 # 0
    \/ /\ memory_limit # None
       /\ \/ memory_limit.int < memory
          \/ memory_limit.int % 1024 # 0

\* C1: an invocation whose memory is not a multiple of 1024, or whose
\* memory_limit is set and is less than memory or not a multiple of 1024, issues
\* no HTTP request at all and, once past the checks, has ended with a failure
\* report.
C1_FailsBeforeAnyRequest ==
    C1_BadMemory =>
        /\ requests = << >>
        /\ last_request = None
        /\ pc \in {"main_validate", "done"}
        /\ pc = "done" => report # None /\ report.call = "fail_json"

C1_Witness ==
    /\ pc = "done"
    /\ memory % 1024 = 0
    /\ memory_limit # None
    /\ memory_limit.int >= memory
    /\ memory_limit.int % 1024 # 0
    /\ report.call = "fail_json"

\* ---------------------------------------------------------------------- C2
\* C2: when the status the last step fetched has summaryDone = true,
\* monitor_job has returned {changed: false, failed: true, msg naming the job id
\* and its error} if its jobRunState is FAILURE and {changed: true, failed:
\* false, resultId: the job's resultId} if it is SUCCESS, both taken from that
\* same status.
C2_ResultOfTerminalStatus ==
    (job # None /\ job.summaryDone) =>
        /\ job.jobRunState = "FAILURE" =>
            /\ pc # "monitor_job"
            /\ result = [changed |-> FALSE, failed |-> TRUE,
                         msg |-> <<"Job %s failed with: %s.", job.id.value, job.error>>]
            /\ job.id.value = last_request.object_id
        /\ job.jobRunState = "SUCCESS" =>
            /\ pc # "monitor_job"
            /\ result = [changed |-> TRUE, failed |-> FALSE, resultId |-> job.resultId]
            /\ job.id.value = last_request.object_id

C2_Witness ==
    /\ job # None
    /\ job.summaryDone
    /\ job.jobRunState = "FAILURE"
    /\ job.error = "err1"
    /\ result # None
    /\ result.failed

\* ---------------------------------------------------------------------- C3
\* C3: monitor_job stops polling only on a terminal job state: after a fetched
\* status it has returned exactly when that status has summaryDone = true and a
\* jobRunState of SUCCESS or FAILURE; after any other status it is still in its
\* loop, about to fetch again.
C3_StopsOnlyOnTerminalState ==
    job # None =>
        ((pc # "monitor_job") <=> (job.summaryDone /\ job.jobRunState \in Terminal))


\* ---------------------------------------------------------------------- C4
\* the VM exists: main() found it and so did the helper main() called
C4_VmExists ==
    /\ state \in {"absent", "start", "stop", "restart"}
    /\ vm # None
    /\ Len(requests) >= 4
    /\ requests[4] = Entry("GET", "Vm", "id", "found")

\* the one mutating request the requested state asks for
C4_Expected ==
    IF state = "absent" THEN Entry("DELETE", "Vm", "", "sent")
    ELSE Entry("PUT", "Vm", state, "sent")

\* C4: given an existing VM and a requested state of absent (start, stop,
\* restart), the invocation sends exactly one mutating request, DELETE Vm/{id}
\* (PUT Vm/{id}/{state}) with the id of the element the helper resolved from
\* the name, every request after it is a fetch of the status of the job that
\* request returned, and the report has changed = true exactly when the
\* status polling ended on is a SUCCESS.
C4_OneRequestThenPolling ==
    C4_VmExists =>
        /\ Len(Mutations) <= 1
        /\ pc \in {"delete", "state"} =>
            /\ vm_id \in {response.list[n] : n \in Matches(response.list, VmName)}
            /\ Mutations = << >>
        /\ Len(requests) >= 5 =>
            /\ requests[5] = C4_Expected
            /\ \A n \in 6..Len(requests) : IsPoll(requests[n])
        /\ (last_request # None /\ IsMutating(last_request)) =>
            /\ last_request.object_type = "Vm"
            /\ last_request.object_id = vm_id.value
            /\ vm_id.name = VmName
        /\ (pc = "monitor_job" /\ last_request.method = "GET") =>
            /\ last_request.object_type = "Job"
            /\ last_request.object_id = job_id
        /\ Ended =>
            /\ Len(requests) >= 6
            /\ job.summaryDone
            /\ pc = "done" <=> job.jobRunState \in Terminal
            /\ pc = "done" =>
                (("changed" \in DOMAIN report.kwargs /\ report.kwargs.changed)
                    <=> job.jobRunState = "SUCCESS")

C4_Witness ==
    /\ C4_VmExists
    /\ state = "restart"
    /\ pc = "done"
    /\ Len(requests) = 7
    /\ requests[6].outcome = "pending"
    /\ report.kwargs.changed

\* ---------------------------------------------------------------------- C5
C5_NoVmPresent ==
    /\ state = "present"
    /\ Len(requests) >= 3
    /\ vm = None
    /\ virtual_nics # None
    /\ disk_mappings # None

C5_Repeat(e, n) == [x \in 1..n |-> e]

\* the manager lists the VM in every listing fetched after the create POST
C5_VmListedOnceCreated ==
    \A n \in 5..Len(requests) :
        (IsScan(requests[n]) /\ requests[n].object_type = "Vm") =>
            requests[n].outcome = "found"

\* C5 as stated, for a manager that lists the VM once its create POST was
\* sent: a missing VM and state present with N virtual NICs and M disk
\* mappings end in one Vm create POST, N VirtualNic child-creates, M
\* VmDiskMapping child-creates and one start, in that order, whatever the
\* outcome of the polled jobs.
C5_ExactlyNAndMRequests ==
    (C5_NoVmPresent /\ Ended /\ C5_VmListedOnceCreated) =>
        Mutations = << Entry("POST", "Vm", "", "sent") >>
                    \o C5_Repeat(Entry("POST", "Vm", "VirtualNic", "sent"),
                                 Len(virtual_nics.list))
                    \o C5_Repeat(Entry("POST", "Vm", "VmDiskMapping", "sent"),
                                 Len(disk_mappings.list))
                    \o << Entry("PUT", "Vm", "start", "sent") >>

\* a job polled until monitor_job returns: the statuses of a job still under
\* way, if any was fetched, then one of a job that is done
C5_IsPolling(s) ==
    \/ s = << Entry("GET", "Job", "", "done") >>
    \/ s = << Entry("GET", "Job", "", "pending"), Entry("GET", "Job", "", "done") >>

\* the requests of one helper operation: the name scans, and, only when each
\* name resolved, one mutating request and the polling of its job
C5_IsOperation(kind, s) ==
    LET vm_scan(o) == Entry("GET", "Vm", "id", o)
        sent(seq, from) == Len(s) > from /\ SubSeq(s, 1, from) = seq
                           /\ C5_IsPolling(SubSeq(s, from + 1, Len(s)))
    IN CASE kind = "create" ->
            sent(<< Entry("POST", "Vm", "", "sent") >>, 1)
         [] kind = "create_virtualnic" ->
            \/ s = << vm_scan("missing") >>
            \/ s = << vm_scan("found"), Entry("GET", "Network", "id", "missing") >>
            \/ sent(<< vm_scan("found"), Entry("GET", "Network", "id", "found"),
                       Entry("POST", "Vm", "VirtualNic", "sent") >>, 3)
         [] kind = "create_diskmapping" ->
            \/ s = << vm_scan("missing") >>
            \/ s = << vm_scan("found"), Entry("GET", "VirtualDisk", "id", "missing") >>
            \/ sent(<< vm_scan("found"), Entry("GET", "VirtualDisk", "id", "found"),
                       Entry("POST", "Vm", "VmDiskMapping", "sent") >>, 3)
         [] kind = "start" ->
            \/ s = << vm_scan("missing") >>
            \/ sent(<< vm_scan("found"), Entry("PUT", "Vm", "start", "sent") >>, 2)

\* the history s is the operations of plan, one after the other
RECURSIVE C5_Follows(_, _)
C5_Follows(s, plan) ==
    IF plan = << >> THEN s = << >>
    ELSE \E n \in 1..Len(s) :
            /\ C5_IsOperation(Head(plan), SubSeq(s, 1, n))
            /\ C5_Follows(SubSeq(s, n + 1, Len(s)), Tail(plan))

C5_Plan ==
    << "create" >> \o C5_Repeat("create_virtualnic", Len(virtual_nics.list))
                   \o C5_Repeat("create_diskmapping", Len(disk_mappings.list))
                   \o << "start" >>

\* C5 (amended): a missing VM and state present with lists of N virtual NICs
\* and M disk mappings end, when the invocation ends, in one Vm create POST,
\* then N create_virtualnic operations, then M create_diskmapping operations,
\* then one start operation, in that order; an operation sends its request
\* once when the names it scans for resolve and not at all when one does not,
\* and the job of each request sent is polled until monitor_job returns before
\* the next request is issued.
C5_OperationsInOrder ==
    (C5_NoVmPresent /\ Ended) =>
        C5_Follows(SubSeq(requests, 4, Len(requests)), C5_Plan)

C5_Witness ==
    /\ C5_NoVmPresent
    /\ pc = "done"
    /\ Len(virtual_nics.list) = 1
    /\ Len(disk_mappings.list) = 1
    /\ Len(Mutations) = 4
    /\ failures # {}
    /\ \E n \in DOMAIN requests : requests[n].outcome = "pending"

\* ---------------------------------------------------------------------- C6
\* C6: when a job polled during the invocation ended in FAILURE, the report the
\* invocation ends with is a failed one (fail_json) whose msg carries the error
\* of a failed job.
C6_JobFailureIsReported ==
    (pc = "done" /\ failures # {}) =>
        /\ report.call = "fail_json"
        /\ report.kwargs.failed
        /\ \E id \in JobIds, e \in failures :
            report.kwargs.msg = <<"Job %s failed with: %s.", id, e>>


\* ---------------------------------------------------------------------- C7
\* the last step fetched a Vm listing in which two VMs carry the name given
C7_TwoVmsOfTheName ==
    /\ response # None
    /\ last_request.object_type = "Vm"
    /\ Cardinality(Matches(response.list, VmName)) >= 2

\* C7: when the Vm listing holds two virtual machines of the name given, the
\* module returns an error: its result is a failed one and it goes on to no
\* operation on either of them.
C7_DuplicateNameIsAnError ==
    C7_TwoVmsOfTheName =>
        /\ pc \in {"main_report", "done"}
        /\ result # None
        /\ result.failed

\* ---------------------------------------------------------------------- C8
C8_NoOpRow ==
    /\ Len(requests) >= 3
    /\ \/ vm # None /\ state = "present"
       \/ vm = None /\ state \in {"absent", "start", "stop", "restart"}

\* C8: when the VM exists and the requested state is present, or the VM does
\* not exist and the requested state is absent, start, stop or restart, the
\* invocation issues the three name-lookup GETs and nothing else, and reports
\* success with no change.
C8_NoOpIssuesNoMutation ==
    C8_NoOpRow =>
        /\ Len(requests) = 3
        /\ \A n \in DOMAIN requests : IsScan(requests[n])
        /\ pc \in {"main_report", "done"}
        /\ pc = "done" =>
            /\ report.call = "exit_json"
            /\ report.kwargs.failed = FALSE
            /\ ~("changed" \in DOMAIN report.kwargs /\ report.kwargs.changed)

C8_Witness ==
    /\ C8_NoOpRow
    /\ pc = "done"
    /\ vm = None
    /\ state = "stop"
    /\ report.call = "exit_json"

\* ---------------------------------------------------------------------- C9
\* the resource a helper scans a listing for: what it is called in the
\* not-found message, and its name
C9_Missing(object_type) ==
    CASE object_type = "Vm" -> <<"vm", VmName>>
      [] object_type = "Network" -> <<"network", NetworkName>>
      [] object_type = "VirtualDisk" -> <<"virtual_disk", VirtualDiskName>>

\* the last step was the name scan of a helper (the first three are main()'s)
C9_HelperScanned ==
    /\ Len(requests) > 3
    /\ response # None

\* C9: in delete, state, create_virtualnic and create_diskmapping, a name that
\* matches no element of its listing makes the operation return {changed:
\* false, failed: true, msg naming the missing resource} with no mutating
\* request and no polling; a name that matches exactly one element resolves to
\* that element, and the request sent is addressed with its id.
C9_NotFoundOrAddressedById ==
    /\ (C9_HelperScanned /\ Matches(response.list, C9_Missing(last_request.object_type)[2]) = {}) =>
        /\ result = [changed |-> FALSE, failed |-> TRUE,
                     msg |-> <<"Could not find a %s named %s.",
                               C9_Missing(last_request.object_type)[1],
                               C9_Missing(last_request.object_type)[2]>>]
        /\ requests[Len(requests)].outcome = "missing"
        /\ pc \notin {"delete", "state", "create_virtualnic", "create_diskmapping",
                      "create_virtualnic_network", "create_diskmapping_virtual_disk",
                      "monitor_job"}
        /\ job_id = None
    /\ \A n \in 1..(IF C9_HelperScanned THEN Len(response.list) ELSE 0) :
        Matches(response.list, C9_Missing(last_request.object_type)[2]) = {n} =>
            IF last_request.object_type = "Vm"
            THEN vm_id = response.list[n]
            ELSE child_id = response.list[n]
    /\ (last_request # None /\ IsMutating(last_request) /\ frame # "create") =>
        /\ last_request.object_id = vm_id.value
        /\ frame = "create_virtualnic" => last_request.data.networkId = child_id
        /\ frame = "create_diskmapping" => last_request.data.virtualDiskId = child_id

C9_Witness ==
    /\ C9_HelperScanned
    /\ last_request.object_type = "Network"
    /\ Len(response.list) = 1
    /\ Matches(response.list, NetworkName) = {}
    /\ result.failed

\* --------------------------------------------------------------------- C10
\* C10: when the repository name or the server_pool name matches no element of
\* its listing, no Vm create POST is sent, and the invocation ends with a
\* not-found failed report naming the missing resource.
C10_UnresolvedPoolIsNotFound ==
    /\ (Len(requests) >= 1 /\ repository_id = None) =>
        /\ \A n \in DOMAIN requests : requests[n] # Entry("POST", "Vm", "", "sent")
        /\ pc = "done" =>
            /\ report.call = "fail_json"
            /\ report.kwargs.msg = <<"Could not find a %s named %s.", "repository",
                                     RepositoryName>>
    /\ (Len(requests) >= 2 /\ repository_id # None /\ server_pool_id = None) =>
        /\ \A n \in DOMAIN requests : requests[n] # Entry("POST", "Vm", "", "sent")
        /\ pc = "done" =>
            /\ report.call = "fail_json"
            /\ report.kwargs.msg = <<"Could not find a %s named %s.", "server_pool",
                                     ServerPoolName>>

====
